---- MODULE Spec2Model ----
(***************************************************************************)
(* SourceConfig (core/dbt/parser/source_config.py): the per-unit           *)
(* configuration resolver.  A configuration mapping is a total function    *)
(* over Keys whose values carry their Python kind: "N" key not in the      *)
(* mapping, "S" scalar, "L" list, "D" dict.  A project tree is a function   *)
(* from paths of FQN segments to nodes; a node that is not present is a     *)
(* key that the enclosing dict does not have (or holds None).  The segment  *)
(* names of a tree are taken distinct from the configuration keys.         *)
(***************************************************************************)
EXTENDS Integers, Sequences, FiniteSets, TLC

VARIABLES
    active_project,   \* self.active_project: [project_name, models, seeds]
    own_project,      \* self.own_project
    fqn,              \* self.fqn
    node_type,        \* self.node_type
    in_model_config,  \* self.in_model_config
    list_policy,      \* how dbt.utils.deep_merge combines two lists
    op,               \* the last call made on the object
    arg,              \* the argument of the last update_in_model_config call
    ret,              \* what the last call returned or raised
    n_updates         \* number of update_in_model_config calls so far

vars == <<active_project, own_project, fqn, node_type, in_model_config,
          list_policy, op, arg, ret, n_updates>>

\* Number of update_in_model_config calls explored.
MaxUpdates == 2

----------------------------------------------------------------------------
\* Field classification

AppendListFields == {"pre-hook", "post-hook", "tags"}

ExtendDictFields == {"vars", "column_types", "quoting", "persist_docs"}

ClobberFields == {"alias", "schema", "enabled", "materialized", "unique_key",
                  "database", "severity", "docs", "incremental_strategy"}

ConfigKeys == AppendListFields \cup ExtendDictFields \cup ClobberFields

\* adapter_class.AdapterSpecificConfigs of the configured adapter
AdapterSpecificConfigs == {"dist"}

\* a key no field set recognises, and a key the adapter aliases
UnknownKeys == {"bogus"}

AliasKeys == {"dataset"}

Keys == ConfigKeys \cup AdapterSpecificConfigs \cup UnknownKeys \cup AliasKeys

----------------------------------------------------------------------------
\* Values

DKeys == {"x", "y"}

NoDict == [d \in DKeys |-> ""]

Absent == [k |-> "N", s |-> "", l |-> <<>>, d |-> NoDict]

Scalar(x) == [k |-> "S", s |-> x, l |-> <<>>, d |-> NoDict]

List(xs) == [k |-> "L", s |-> "", l |-> xs, d |-> NoDict]

Dict(m) == [k |-> "D", s |-> "", l |-> <<>>, d |-> m]

EmptyConfig == [key \in Keys |-> Absent]

InSeq(e, xs) == \E i \in 1..Len(xs) : xs[i] = e

\* dict.update(other) for two dicts: a shallow right-biased union
DictUnion(cur, new) == [d \in DKeys |-> IF new[d] # "" THEN new[d] ELSE cur[d]]

\* dict.update(value) raises ValueError/TypeError for a scalar and for a
\* non-empty sequence of scalars; an empty sequence updates nothing.
UpdateRaises(value) ==
    \/ value.k = "S"
    \/ value.k = "L" /\ value.l # <<>>

----------------------------------------------------------------------------
\* Project trees

TreePaths == {<<>>, <<"a">>, <<"b">>, <<"a", "b">>}

MissingNode == [present |-> FALSE, entries |-> EmptyConfig]

Node(e) == [present |-> TRUE, entries |-> e]

Tree(r, a, b, ab) ==
    [p \in TreePaths |->
        IF p = <<>> THEN r
        ELSE IF p = <<"a">> THEN a
        ELSE IF p = <<"b">> THEN b
        ELSE ab]

\* model_configs.get(level, None) below the node at path
Child(tree, path, level) ==
    IF Append(path, level) \in TreePaths
    THEN tree[Append(path, level)]
    ELSE MissingNode

\* runtime_config.models is None
NoneTree == Tree(MissingNode, MissingNode, MissingNode, MissingNode)

\* model_configs = {}
EmptyTree == Tree(Node(EmptyConfig), MissingNode, MissingNode, MissingNode)

----------------------------------------------------------------------------
\* SourceConfig.__get_as_list
__get_as_list(relevant_configs, key) ==
    IF relevant_configs[key].k = "N" THEN <<>>
    ELSE IF relevant_configs[key].k = "L" THEN relevant_configs[key].l
    ELSE <<relevant_configs[key].s>>

\* smart_update with the dict-union error swallowed
smart_update_no_raise(mutable_config, new_configs) ==
    LET config_keys == ConfigKeys \cup AdapterSpecificConfigs
        relevant_configs ==
            [key \in Keys |->
                IF key \in config_keys THEN new_configs[key] ELSE Absent]
        fresh(key) ==
            LET append_fields == __get_as_list(relevant_configs, key)
                NotIn(f) == ~InSeq(f, mutable_config[key].l)
            IN  SelectSeq(append_fields, NotIn)
        merged ==
            [key \in Keys |->
                IF key \in AppendListFields
                THEN List(mutable_config[key].l \o fresh(key))
                ELSE IF key \in ExtendDictFields
                THEN IF relevant_configs[key].k = "D"
                     THEN Dict(DictUnion(mutable_config[key].d,
                                         relevant_configs[key].d))
                     ELSE mutable_config[key]
                ELSE IF key \in (ClobberFields \cup AdapterSpecificConfigs)
                        /\ relevant_configs[key].k # "N"
                THEN relevant_configs[key]
                ELSE mutable_config[key]]
    IN  [err |-> FALSE,
         mutable_config |-> merged,
         relevant_configs |-> relevant_configs]

\* smart_update extending with every element, present already or not
smart_update_extend_all(mutable_config, new_configs) ==
    LET config_keys == ConfigKeys \cup AdapterSpecificConfigs
        relevant_configs ==
            [key \in Keys |->
                IF key \in config_keys THEN new_configs[key] ELSE Absent]
        merged ==
            [key \in Keys |->
                IF key \in AppendListFields
                THEN List(mutable_config[key].l
                          \o __get_as_list(relevant_configs, key))
                ELSE IF key \in ExtendDictFields
                THEN IF relevant_configs[key].k = "D"
                     THEN Dict(DictUnion(mutable_config[key].d,
                                         relevant_configs[key].d))
                     ELSE mutable_config[key]
                ELSE IF key \in (ClobberFields \cup AdapterSpecificConfigs)
                        /\ relevant_configs[key].k # "N"
                THEN relevant_configs[key]
                ELSE mutable_config[key]]
    IN  [err |-> \E key \in ExtendDictFields :
                    UpdateRaises(relevant_configs[key]),
         mutable_config |-> merged,
         relevant_configs |-> relevant_configs]

\* SourceConfig.smart_update: the accumulator as the call leaves it, the
\* filtered contribution it returns, and whether it raised the compiler error.
smart_update(mutable_config, new_configs) ==
    LET config_keys == ConfigKeys \cup AdapterSpecificConfigs
        relevant_configs ==
            [key \in Keys |->
                IF key \in config_keys THEN new_configs[key] ELSE Absent]
        fresh(key) ==
            LET append_fields == __get_as_list(relevant_configs, key)
                NotIn(f) == ~InSeq(f, mutable_config[key].l)
            IN  SelectSeq(append_fields, NotIn)
        merged ==
            [key \in Keys |->
                IF key \in AppendListFields
                THEN List(mutable_config[key].l \o fresh(key))
                ELSE IF key \in ExtendDictFields
                THEN IF relevant_configs[key].k = "D"
                     THEN Dict(DictUnion(mutable_config[key].d,
                                         relevant_configs[key].d))
                     ELSE mutable_config[key]
                ELSE IF key \in (ClobberFields \cup AdapterSpecificConfigs)
                        /\ relevant_configs[key].k # "N"
                THEN relevant_configs[key]
                ELSE mutable_config[key]]
    IN  [err |-> \E key \in ExtendDictFields :
                    UpdateRaises(relevant_configs[key]),
         mutable_config |-> merged,
         relevant_configs |-> relevant_configs]

\* the accumulator get_project_config starts from
InitialProjectConfig ==
    [key \in Keys |->
        IF key \in AppendListFields THEN List(<<>>)
        ELSE IF key \in ExtendDictFields THEN Dict(NoDict)
        ELSE Absent]

Raised == [err |-> TRUE, config |-> EmptyConfig]

Returned(config) == [err |-> FALSE, config |-> config]

\* the FQN loop going on to the next segment where it should stop
RECURSIVE fqn_loop_continue(_, _, _, _)
fqn_loop_continue(tree, i, path, config) ==
    IF i > Len(fqn) THEN Returned(config)
    ELSE
        LET level == fqn[i]
            level_config == Child(tree, path, level)
        IN  IF ~level_config.present
            THEN fqn_loop_continue(tree, i + 1, path, config)
            ELSE
                LET r == smart_update(config, level_config.entries)
                    clobber_configs ==
                        [key \in Keys |->
                            IF key \notin AppendListFields
                               /\ key \notin ExtendDictFields
                            THEN r.relevant_configs[key]
                            ELSE Absent]
                    updated ==
                        [key \in Keys |->
                            IF clobber_configs[key].k # "N"
                            THEN clobber_configs[key]
                            ELSE r.mutable_config[key]]
                IN  IF r.err THEN Raised
                    ELSE fqn_loop_continue(tree, i + 1, Append(path, level),
                                           updated)

\* the loop over the FQN in get_project_config
RECURSIVE fqn_loop(_, _, _, _)
fqn_loop(tree, i, path, config) ==
    IF i > Len(fqn) THEN Returned(config)
    ELSE
        LET level == fqn[i]
            level_config == Child(tree, path, level)
        IN  IF ~level_config.present THEN Returned(config)
            ELSE
                LET r == smart_update(config, level_config.entries)
                    clobber_configs ==
                        [key \in Keys |->
                            IF key \notin AppendListFields
                               /\ key \notin ExtendDictFields
                            THEN r.relevant_configs[key]
                            ELSE Absent]
                    updated ==
                        [key \in Keys |->
                            IF clobber_configs[key].k # "N"
                            THEN clobber_configs[key]
                            ELSE r.mutable_config[key]]
                IN  IF r.err THEN Raised
                    ELSE fqn_loop(tree, i + 1, Append(path, level), updated)

\* get_project_config returning a bare mapping when the project has no tree
get_project_config_bare(runtime_config) ==
    LET model_configs ==
            IF node_type = "seed" THEN runtime_config.seeds
            ELSE IF node_type = "snapshot" THEN EmptyTree
            ELSE runtime_config.models
    IN  IF ~model_configs[<<>>].present THEN Returned(EmptyConfig)
        ELSE
            LET r == smart_update(InitialProjectConfig,
                                  model_configs[<<>>].entries)
            IN  IF r.err THEN Raised
                ELSE fqn_loop(model_configs, 1, <<>>, r.mutable_config)

\* SourceConfig.get_project_config
get_project_config(runtime_config) ==
    LET model_configs ==
            IF node_type = "seed" THEN runtime_config.seeds
            ELSE IF node_type = "snapshot" THEN EmptyTree
            ELSE runtime_config.models
    IN  IF ~model_configs[<<>>].present THEN Returned(InitialProjectConfig)
        ELSE
            LET r == smart_update(InitialProjectConfig,
                                  model_configs[<<>>].entries)
            IN  IF r.err THEN Raised
                ELSE fqn_loop(model_configs, 1, <<>>, r.mutable_config)

load_config_from_own_project == get_project_config(own_project)

load_config_from_active_project == get_project_config(active_project)

----------------------------------------------------------------------------
\* dbt.utils.deep_merge(destination, source): later argument wins key by key,
\* recursively for mappings.  Two lists are either replaced by the later one
\* or joined later-first, as list_policy says.  The inputs explored never
\* merge a mapping over a value of another kind.
deep_merge(destination, source) ==
    [key \in Keys |->
        LET d == destination[key]
            v == source[key]
        IN  IF v.k = "N" THEN d
            ELSE IF v.k = "D" /\ d.k = "D" THEN Dict(DictUnion(d.d, v.d))
            ELSE IF v.k = "L" /\ d.k = "L" /\ list_policy = "concat"
            THEN List(v.l \o d.l)
            ELSE v]

\* SourceConfig._merge
RECURSIVE merge_loop(_, _, _)
merge_loop(configs, i, merged_config) ==
    IF i > Len(configs) THEN merged_config
    ELSE merge_loop(configs, i + 1, deep_merge(merged_config, configs[i]))

_merge(configs) == merge_loop(configs, 1, EmptyConfig)

NoReturn == [kind |-> "none", cfg |-> EmptyConfig]

CompilerError == [kind |-> "error", cfg |-> EmptyConfig]

Config(cfg) == [kind |-> "config", cfg |-> cfg]

\* the defaults of SourceConfig.config
defaults ==
    [key \in Keys |->
        IF key = "enabled" THEN Scalar("True")
        ELSE IF key = "materialized"
        THEN IF node_type = "seed" THEN Scalar("seed")
             ELSE IF node_type = "snapshot" THEN Scalar("snapshot")
             ELSE Scalar("view")
        ELSE IF key = "severity" /\ node_type = "test" THEN Scalar("ERROR")
        ELSE Absent]

\* config merging a dependency unit like a unit of the active project, the
\* in-model config last
config_in_model_last ==
    LET active_config == load_config_from_active_project
    IN  IF active_config.err THEN CompilerError
        ELSE IF active_project.project_name = own_project.project_name
        THEN Config(_merge(<<defaults, active_config.config, in_model_config>>))
        ELSE
            LET own_config == load_config_from_own_project
            IN  IF own_config.err THEN CompilerError
                ELSE Config(_merge(<<defaults, own_config.config,
                                    active_config.config, in_model_config>>))

\* SourceConfig.config (the property)
config ==
    LET active_config == load_config_from_active_project
    IN  IF active_config.err THEN CompilerError
        ELSE IF active_project.project_name = own_project.project_name
        THEN Config(_merge(<<defaults, active_config.config, in_model_config>>))
        ELSE
            LET own_config == load_config_from_own_project
            IN  IF own_config.err THEN CompilerError
                ELSE Config(_merge(<<defaults, own_config.config,
                                    in_model_config, active_config.config>>))

\* credentials.translate_aliases: an aliased key is renamed to its canonical
\* key, every other key is kept; the order of the entries is kept.
Canonical(key) == IF key = "dataset" THEN "schema" ELSE key

_translate_adapter_aliases(items) ==
    [i \in 1..Len(items) |->
        [key |-> Canonical(items[i].key), value |-> items[i].value]]

\* the loop of SourceConfig.update_in_model_config over config.items()
RECURSIVE update_loop(_, _, _)
update_loop(items, i, in_model) ==
    IF i > Len(items) THEN [err |-> FALSE, in_model_config |-> in_model]
    ELSE
        LET key == items[i].key
            value == items[i].value
        IN  IF key \in AppendListFields
            THEN LET current == IF in_model[key].k = "N" THEN <<>>
                                ELSE in_model[key].l
                     extension == IF value.k = "L" THEN value.l
                                  ELSE <<value.s>>
                 IN  update_loop(items, i + 1,
                        [in_model EXCEPT ![key] = List(current \o extension)])
            ELSE IF key \in ExtendDictFields
            THEN LET current == IF in_model[key].k = "N" THEN NoDict
                                ELSE in_model[key].d
                 IN  IF UpdateRaises(value)
                     THEN [err |-> TRUE, in_model_config |-> in_model]
                     ELSE update_loop(items, i + 1,
                            [in_model EXCEPT ![key] =
                                Dict(IF value.k = "D"
                                     THEN DictUnion(current, value.d)
                                     ELSE current)])
            ELSE update_loop(items, i + 1, [in_model EXCEPT ![key] = value])

\* SourceConfig.update_in_model_config
update_in_model_config(items) ==
    update_loop(_translate_adapter_aliases(items), 1, in_model_config)

----------------------------------------------------------------------------
\* Inputs

Item(key, value) == [key |-> key, value |-> value]

D1 == [d \in DKeys |-> IF d = "x" THEN "1" ELSE ""]

D2 == [d \in DKeys |-> IF d = "x" THEN "2" ELSE "3"]

BadVars == Item("vars", Scalar("not_a_mapping"))

TagsA == Item("tags", Scalar("a"))

InlineMaterialized == Item("materialized", Scalar("inline"))

\* the mappings passed to update_in_model_config, as their items in order
UpdateArgs ==
    { <<TagsA>>,
      <<Item("tags", List(<<"a", "b">>))>>,
      <<InlineMaterialized>>,
      <<Item("severity", Scalar("warn"))>>,
      <<Item("bogus", Scalar("z"))>>,
      <<Item("dataset", Scalar("ds"))>>,
      <<Item("vars", Dict(D1))>>,
      <<BadVars>>,
      <<InlineMaterialized, BadVars>>,
      <<BadVars, InlineMaterialized>>,
      <<TagsA, BadVars>> }

Entries(pairs) ==
    [key \in Keys |->
        IF \E i \in 1..Len(pairs) : pairs[i].key = key
        THEN (CHOOSE it \in {pairs[i] : i \in 1..Len(pairs)} : it.key = key).value
        ELSE Absent]

E0 == EmptyConfig

E1 == Entries(<<Item("tags", List(<<"a", "b">>)), Item("vars", Dict(D1)),
                Item("materialized", Scalar("table")),
                Item("bogus", Scalar("z"))>>)

E2 == Entries(<<Item("tags", List(<<"b", "c">>)), Item("vars", Dict(D2)),
                Item("severity", Scalar("WARN")),
                Item("dist", Scalar("even"))>>)

E3 == Entries(<<Item("tags", Scalar("a")),
                Item("materialized", Scalar("incremental"))>>)

E4 == Entries(<<Item("tags", List(<<"a", "a">>))>>)

E5 == Entries(<<Item("vars", Scalar("not_a_mapping")),
                Item("materialized", Scalar("ephemeral"))>>)

LevelEntries == {E0, E1, E2, E3, E4, E5}

NodeTypes == {"model", "seed", "snapshot", "test"}

FQNs == {<<"a", "b">>, <<"b", "a">>, <<"b">>}

Project(name, models, seeds) ==
    [project_name |-> name, models |-> models, seeds |-> seeds]

\* root, a and a.b declare configuration; b is off the path <<"a", "b">>
TFull == Tree(Node(E1), Node(E2), Node(E3), Node(E3))

\* no child "a": the lookup of <<"a", "b">> stops at the root
TStop == Tree(Node(E2), MissingNode, Node(E5), MissingNode)

\* the level "a" gives vars a value that is not a mapping
TBad == Tree(Node(E0), Node(E5), MissingNode, MissingNode)

\* another tree that declares materialized on the path
TOwn == Tree(Node(E3), Node(E1), MissingNode, MissingNode)

PFull == <<TFull, TStop>>

POwn == <<TOwn, TFull>>

PStop == <<TStop, NoneTree>>

PBad == <<TBad, TFull>>

\* the (active, owning) pairs of (models, seeds) trees a unit is built with
SameProjectTrees == {PFull, PStop, PBad}

DependencyTrees ==
    {<<PFull, POwn>>, <<PStop, POwn>>, <<PBad, PFull>>, <<PFull, PBad>>}

Projects ==
    {<<Project("root", t[1], t[2]), Project("root", t[1], t[2])>> :
        t \in SameProjectTrees}
    \cup {<<Project("root", t[1][1], t[1][2]),
            Project("dep", t[2][1], t[2][2])>> : t \in DependencyTrees}

----------------------------------------------------------------------------
\* SourceConfig.__init__
Init ==
    /\ \E p \in Projects : active_project = p[1] /\ own_project = p[2]
    /\ fqn \in {<<"a", "b">>, <<"b">>}
    /\ node_type \in NodeTypes
    /\ in_model_config = EmptyConfig
    /\ list_policy \in {"replace", "concat"}
    /\ op = "init"
    /\ arg = <<>>
    /\ ret = NoReturn
    /\ n_updates = 0

\* a call of update_in_model_config(items)
Update(items) ==
    /\ n_updates < MaxUpdates
    /\ LET r == update_in_model_config(items)
       IN  /\ in_model_config' = r.in_model_config
           /\ ret' = IF r.err THEN CompilerError ELSE NoReturn
    /\ op' = "update"
    /\ arg' = items
    /\ n_updates' = n_updates + 1
    /\ UNCHANGED <<active_project, own_project, fqn, node_type, list_policy>>

\* a read of the config property that merges into self.in_model_config
ResolveInPlace ==
    /\ ret' = config
    /\ in_model_config' = IF config.kind = "config" THEN config.cfg
                          ELSE in_model_config
    /\ op' = "resolve"
    /\ arg' = <<>>
    /\ UNCHANGED <<active_project, own_project, fqn, node_type,
                   list_policy, n_updates>>

\* a read of the config property
Resolve ==
    /\ ret' = config
    /\ op' = "resolve"
    /\ arg' = <<>>
    /\ UNCHANGED <<active_project, own_project, fqn, node_type,
                   in_model_config, list_policy, n_updates>>

Next ==
    \/ \E items \in UpdateArgs : Update(items)
    \/ Resolve

Spec == Init /\ [][Next]_vars

----------------------------------------------------------------------------
\* The tree lookup on its own: load_config_from_active_project over every
\* tree built from LevelEntries

MaybeNodes == {MissingNode} \cup {Node(e) : e \in LevelEntries}

LookupTrees ==
    {NoneTree} \cup
    { Tree(Node(r), m[1], m[2], m[3]) :
        r \in LevelEntries,
        m \in { x \in MaybeNodes \X MaybeNodes \X MaybeNodes :
                    x[3].present => x[1].present } }

InitLookup ==
    /\ \E t \in LookupTrees : active_project = Project("root", t, TFull)
    /\ own_project = active_project
    /\ fqn \in FQNs
    /\ node_type \in {"model", "seed", "snapshot"}
    /\ in_model_config = EmptyConfig
    /\ list_policy = "replace"
    /\ op = "init"
    /\ arg = <<>>
    /\ ret = NoReturn
    /\ n_updates = 0

\* a call of load_config_from_active_project
LoadActive ==
    /\ ret' = (LET r == load_config_from_active_project
               IN  IF r.err THEN CompilerError ELSE Config(r.config))
    /\ op' = "load"
    /\ arg' = <<>>
    /\ UNCHANGED <<active_project, own_project, fqn, node_type,
                   in_model_config, list_policy, n_updates>>

NextLookup == LoadActive

SpecLookup == InitLookup /\ [][NextLookup]_vars

----------------------------------------------------------------------------
\* Vocabulary of the properties

SameProject == active_project.project_name = own_project.project_name

Resolved == op = "resolve" /\ ret.kind = "config"

Range(xs) == {xs[i] : i \in 1..Len(xs)}

NoDuplicates(xs) == \A i, j \in 1..Len(xs) : xs[i] = xs[j] => i = j

AsList(value) ==
    IF value.k = "N" THEN <<>>
    ELSE IF value.k = "L" THEN value.l
    ELSE <<value.s>>

\* the tree of a project that is searched for a unit of this node type
SearchedTree(project) ==
    CASE node_type = "seed" -> project.seeds
      [] node_type = "snapshot" -> EmptyTree
      [] OTHER -> project.models

Prefix(j) == SubSeq(fqn, 1, j)

\* the first j segments of the FQN name a chain of children of the tree
Matched(tree, j) ==
    \A i \in 1..j : Prefix(i) \in TreePaths /\ tree[Prefix(i)].present

MatchedLen(tree) ==
    CHOOSE n \in 0..Len(fqn) :
        Matched(tree, n) /\ (n < Len(fqn) => ~Matched(tree, n + 1))

\* the entries of the root and of every matched level, root first
ReachedLevels(tree) ==
    IF ~tree[<<>>].present THEN <<>>
    ELSE [j \in 1..(MatchedLen(tree) + 1) |-> tree[Prefix(j - 1)].entries]

\* a reached level gives a dict-union field a value dict.update rejects
Rejected(tree) ==
    \E i \in 1..Len(ReachedLevels(tree)) : \E key \in ExtendDictFields :
        LET v == ReachedLevels(tree)[i][key]
        IN  v.k = "S" \/ (v.k = "L" /\ v.l # <<>>)

FirstSupplied(values) ==
    IF \E i \in 1..Len(values) : values[i].k # "N"
    THEN values[CHOOSE i \in 1..Len(values) :
                    /\ values[i].k # "N"
                    /\ \A j \in 1..(i - 1) : values[j].k = "N"]
    ELSE Absent

ExpectedDefault(key) ==
    CASE key = "enabled" -> Scalar("True")
      [] key = "materialized" /\ node_type = "seed" -> Scalar("seed")
      [] key = "materialized" /\ node_type = "snapshot" -> Scalar("snapshot")
      [] key = "materialized" /\ node_type \in {"model", "test"} -> Scalar("view")
      [] key = "severity" /\ node_type = "test" -> Scalar("ERROR")
      [] OTHER -> Absent

ActiveLookup(key) == load_config_from_active_project.config[key]

OwnLookup(key) == load_config_from_own_project.config[key]

----------------------------------------------------------------------------
\* C1: in a result of resolve(), every clobber or adapter-specific key has the
\* value of the highest-precedence source that supplies it: in-unit overrides,
\* then the active project's lookup, then the defaults for a unit of the active
\* project; the active project's lookup, then the in-unit overrides, then the
\* owning project's lookup, then the defaults for a dependency unit.
C1_ClobberPrecedence ==
    Resolved =>
        \A key \in ClobberFields \cup AdapterSpecificConfigs :
            ret.cfg[key] =
                IF SameProject
                THEN FirstSupplied(<<in_model_config[key], ActiveLookup(key),
                                     ExpectedDefault(key)>>)
                ELSE FirstSupplied(<<ActiveLookup(key), in_model_config[key],
                                     OwnLookup(key), ExpectedDefault(key)>>)

\* a dependency unit for which the active tree, the inline declaration, the
\* owning tree and the defaults all supply materialized, each another value
C1_Witness ==
    /\ Resolved
    /\ ~SameProject
    /\ ActiveLookup("materialized").k = "S"
    /\ in_model_config["materialized"].k = "S"
    /\ OwnLookup("materialized").k = "S"
    /\ ActiveLookup("materialized") # in_model_config["materialized"]
    /\ ActiveLookup("materialized") # OwnLookup("materialized")
    /\ ret.cfg["materialized"] = ActiveLookup("materialized")

\* the elements the contributing sources supply for an append field
SuppliedElements(key) ==
    LET OfTree(tree) ==
            UNION {Range(AsList(ReachedLevels(tree)[i][key])) :
                        i \in 1..Len(ReachedLevels(tree))}
    IN  OfTree(SearchedTree(active_project))
        \cup (IF SameProject THEN {} ELSE OfTree(SearchedTree(own_project)))
        \cup Range(AsList(in_model_config[key]))

\* C2: in a result of resolve(), every append field holds every element that
\* any contributing source supplies for it, and holds no element twice.
C2_AppendAccumulatesDeduplicated ==
    Resolved =>
        \A key \in AppendListFields :
            /\ SuppliedElements(key) \subseteq Range(AsList(ret.cfg[key]))
            /\ NoDuplicates(AsList(ret.cfg[key]))

\* xs appended to acc element by element, skipping what acc already holds
RECURSIVE DedupExtend(_, _)
DedupExtend(acc, xs) ==
    IF xs = <<>> THEN acc
    ELSE DedupExtend(IF InSeq(Head(xs), acc) THEN acc
                     ELSE Append(acc, Head(xs)),
                     Tail(xs))

\* what a mapping passed to update() supplies for a key, as a sequence
SuppliedTo(items, key) ==
    IF \E i \in 1..Len(items) : Canonical(items[i].key) = key
    THEN AsList(items[CHOOSE i \in 1..Len(items) :
                        Canonical(items[i].key) = key].value)
    ELSE <<>>

\* C3: every update() that returns leaves each in-unit append list equal to
\* the list before the call extended, without duplicates, by what the call
\* supplies; from the empty mapping this is the de-duplicated concatenation
\* of the supplied values in call order.
C3_UpdateAppendsDeduplicated ==
    [][(op' = "update" /\ ret'.kind = "none") =>
        \A key \in AppendListFields :
            AsList(in_model_config'[key]) =
                DedupExtend(AsList(in_model_config[key]),
                            SuppliedTo(arg', key))]_vars

\* C4: an update() that raises the compiler error leaves the in-unit override
\* mapping as it was before the call.
C4_FailedUpdateChangesNothing ==
    [][(op' = "update" /\ ret'.kind = "error") =>
        in_model_config' = in_model_config]_vars

\* C5: resolve() never raises.
C5_ResolveNeverRaises == op = "resolve" => ret.kind = "config"

\* C5, amended: resolve() raises the compiler error exactly when a reached
\* level of a searched tree (the active project's, and the owning project's
\* for a dependency unit) gives a dict-union field a value that is not a
\* mapping; otherwise it returns an effective configuration.
C5_ResolveRaisesOnlyOnRejectedTree ==
    op = "resolve" =>
        /\ ret.kind \in {"config", "error"}
        /\ ret.kind = "error" <=>
                \/ Rejected(SearchedTree(active_project))
                \/ ~SameProject /\ Rejected(SearchedTree(own_project))

\* resolve() returned, after at least one update(), although a level of the
\* searched tree of the active project holds a scalar for a dict-union field
\* (that level lies off the unit's path)
C5_Witness ==
    /\ Resolved
    /\ n_updates > 0
    /\ \E p \in TreePaths : \E key \in ExtendDictFields :
            /\ SearchedTree(active_project)[p].present
            /\ SearchedTree(active_project)[p].entries[key].k = "S"

\* C6: every result of resolve() has every append field as a sequence, every
\* dict-union field as a mapping, and the keys enabled and materialized.
C6_ResultShape ==
    Resolved =>
        /\ \A key \in AppendListFields : ret.cfg[key].k = "L"
        /\ \A key \in ExtendDictFields : ret.cfg[key].k = "D"
        /\ ret.cfg["enabled"].k # "N"
        /\ ret.cfg["materialized"].k # "N"

\* a seed of a dependency project whose active project has no seeds tree,
\* resolved with no inline declaration of tags
C6_Witness ==
    /\ Resolved
    /\ ~SameProject
    /\ ~SearchedTree(active_project)[<<>>].present
    /\ in_model_config["tags"].k = "N"
    /\ n_updates > 0

C8_UnrecognizedKeysDropped ==
    Resolved =>
        \A key \in Keys \ (ConfigKeys \cup AdapterSpecificConfigs) :
            ret.cfg[key].k = "N"

----------------------------------------------------------------------------
\* Properties of the tree lookup (SpecLookup)

Loaded == op = "load"

\* the smart update applied level by level
RECURSIVE Accumulate(_, _, _)
Accumulate(levels, i, acc) ==
    IF i > Len(levels) THEN Config(acc)
    ELSE LET r == smart_update(acc, levels[i])
         IN  IF r.err THEN CompilerError
             ELSE Accumulate(levels, i + 1, r.mutable_config)

\* C9: the lookup accumulates the root-level entries and the levels of the
\* segments matched before the first segment that has no child, and nothing
\* else; with no child for the first segment it returns the root-level
\* contribution; a missing segment raises no error.
C9_LookupStopsAtFirstMissingSegment ==
    Loaded =>
        LET tree == SearchedTree(active_project)
        IN  /\ ret = Accumulate(ReachedLevels(tree), 1, InitialProjectConfig)
            /\ (tree[<<>>].present /\ MatchedLen(tree) = 0 /\ ret.kind = "config")
                    => ret.cfg = smart_update(InitialProjectConfig,
                                              tree[<<>>].entries).mutable_config
            /\ ret.kind = "error" => Rejected(tree)

\* the FQN <<"a", "b">> in a tree with no child "a" whose root has a child
\* "b" that declares configuration
C9_Witness ==
    /\ Loaded
    /\ ret.kind = "config"
    /\ node_type = "model"
    /\ fqn = <<"a", "b">>
    /\ ~active_project.models[<<"a">>].present
    /\ active_project.models[<<"b">>].present
    /\ active_project.models[<<"b">>].entries = E3
    /\ active_project.models[<<>>].entries = E1

AllMappings(tree) ==
    \A p \in TreePaths : \A key \in ExtendDictFields :
        tree[p].entries[key].k \in {"N", "D"}

\* the elements of level i that no earlier level supplies
NewAt(levels, i, key) ==
    LET earlier == UNION {Range(AsList(levels[j][key])) : j \in 1..(i - 1)}
        IsNew(e) == e \notin earlier
    IN  SelectSeq(AsList(levels[i][key]), IsNew)

RECURSIVE ConcatNew(_, _, _)
ConcatNew(levels, n, key) ==
    IF n = 0 THEN <<>>
    ELSE ConcatNew(levels, n - 1, key) \o NewAt(levels, n, key)

RECURSIVE ConcatAll(_, _, _)
ConcatAll(levels, n, key) ==
    IF n = 0 THEN <<>>
    ELSE ConcatAll(levels, n - 1, key) \o AsList(levels[n][key])

\* the value of the deepest level that declares the key
DeepestDeclared(levels, key) ==
    IF \E i \in 1..Len(levels) : levels[i][key].k # "N"
    THEN levels[CHOOSE i \in 1..Len(levels) :
                    /\ levels[i][key].k # "N"
                    /\ \A j \in (i + 1)..Len(levels) : levels[j][key].k = "N"][key]
    ELSE Absent

\* the right-biased union of the mappings the levels declare for the key
UnionDeclared(levels, key) ==
    [d \in DKeys |->
        IF \E i \in 1..Len(levels) : levels[i][key].d[d] # ""
        THEN levels[CHOOSE i \in 1..Len(levels) :
                        /\ levels[i][key].d[d] # ""
                        /\ \A j \in (i + 1)..Len(levels) :
                                levels[j][key].d[d] = ""][key].d[d]
        ELSE ""]

DictAndClobberAsDeclared(levels) ==
    /\ \A key \in ExtendDictFields :
            ret.cfg[key] = Dict(UnionDeclared(levels, key))
    /\ \A key \in ClobberFields \cup AdapterSpecificConfigs :
            ret.cfg[key] = DeepestDeclared(levels, key)

\* C10: for a tree whose dict-union values are all mappings, the lookup gives
\* each append field the concatenation root to leaf in which an element is
\* appended only if the accumulated sequence does not hold it already, each
\* dict-union field the right-biased union root to leaf, and each clobber or
\* adapter-specific key the value of the deepest matched level declaring it.
C10_LookupIsElementwiseFold ==
    (Loaded /\ AllMappings(SearchedTree(active_project))) =>
        LET levels == ReachedLevels(SearchedTree(active_project))
        IN  /\ ret.kind = "config"
            /\ \A key \in AppendListFields :
                    ret.cfg[key] =
                        List(DedupExtend(<<>>, ConcatAll(levels, Len(levels), key)))
            /\ DictAndClobberAsDeclared(levels)

\* C10, amended: as C10, but an element of a level's contribution is appended
\* unless the sequence accumulated from the earlier contributions holds it; a
\* value repeated within one level's own sequence is kept as often as that
\* level repeats it.
C10_LookupIsLevelwiseFold ==
    (Loaded /\ AllMappings(SearchedTree(active_project))) =>
        LET levels == ReachedLevels(SearchedTree(active_project))
        IN  /\ ret.kind = "config"
            /\ \A key \in AppendListFields :
                    ret.cfg[key] = List(ConcatNew(levels, Len(levels), key))
            /\ DictAndClobberAsDeclared(levels)

\* three matched levels: tags [a,b], then [b,c], then the scalar a; vars
\* {x:1} then {x:2,y:3}; materialized table, then incremental at the leaf
C10_Witness ==
    /\ Loaded
    /\ ret.kind = "config"
    /\ node_type = "model"
    /\ AllMappings(active_project.models)
    /\ MatchedLen(active_project.models) = 2
    /\ ret.cfg["tags"] = List(<<"a", "b", "c">>)
    /\ ret.cfg["vars"] = Dict(D2)
    /\ ret.cfg["materialized"] = Scalar("incremental")
    /\ ret.cfg["severity"] = Scalar("WARN")

====
